---- MODULE Spec2Model ----
(***************************************************************************)
(* Model of src/main.py, the daily "one-time buyers" pipeline:             *)
(*   stage 1  run_jql(build_first_purchase_jql())   -> cohort selection    *)
(*   stage 3  run_jql(build_purchase_logs_jql(..))  -> groupby/filter,     *)
(*            left merge, version flag, sort_values, to_excel              *)
(* main() is one sequential function; it blocks twice, once per query, so  *)
(* the model has one action per query response: Stage1 and Stage3.         *)
(*                                                                         *)
(* Strings that the code only compares for equality (customer ids, field   *)
(* values) are TLA+ strings.  Strings the code parses (AppVersion) are     *)
(* sequences of one-character strings.  A "%Y-%m-%d" date string is the    *)
(* triple <<year, month, day>>: zero padded fixed width text compares      *)
(* (==, <) exactly as the triple does.                                     *)
(*                                                                         *)
(* Columns Station, Zone, Amount and EventDateISO are carried through      *)
(* main() untouched and read by no decision; rows keep only the columns    *)
(* the code branches on.                                                   *)
(***************************************************************************)
EXTENDS Integers, Sequences, FiniteSets, TLC

VARIABLES
    today,                \* datetime.utcnow().date(), as a day of the year 2026
    events,               \* the remote service's event log (opaque runs: << >>)
    pc,                   \* "start" | "stage3" | "exit" | "raised" | "written"
    message,              \* the last line main() printed before returning
    error,                \* the exception that ended the run, "" when none
    queries_sent,         \* number of run_jql calls made
    resp1, resp2,         \* what the service answered to query 1 / query 2
    base_results,         \* main: base_results
    target_customers_df,  \* main: target_customers_df
    target_customers,     \* main: target_customers
    logs_results,         \* main: logs_results
    one_time,             \* main: one_time
    final_df,             \* main: final_df after merge and apply, before the sort
    excel,                \* rows of OUTPUT_EXCEL
    file_written          \* whether to_excel ran

vars == <<today, events, pc, message, error, queries_sent, resp1, resp2,
          base_results, target_customers_df, target_customers, logs_results,
          one_time, final_df, excel, file_written>>

-----------------------------------------------------------------------------
(* Bounds *)

MaxFirst == 2     \* first-purchase records in an opaque answer to query 1
MaxLogs == 3      \* purchase-event records in an opaque answer to query 2
MaxEvents == 2    \* events in the remote log
MaxSegs == 3      \* "."-separated segments of a generated AppVersion

SeqsUpTo(S, n) == UNION {[1..k -> S] : k \in 0..n}

Customers == {"A", "B"}

-----------------------------------------------------------------------------
(* Dates: datetime.date arithmetic and strftime("%Y-%m-%d") within 2026 *)

MonthDays == <<31, 28, 31, 30, 31, 30, 31, 31, 30, 31, 30, 31>>

RECURSIVE FromDayOfYear(_, _)
FromDayOfYear(n, m) ==
    IF n <= MonthDays[m] THEN <<m, n>> ELSE FromDayOfYear(n - MonthDays[m], m + 1)

\* date.strftime("%Y-%m-%d") / JQL isoDate(ts)
strftime(n) == LET md == FromDayOfYear(n, 1) IN <<2026, md[1], md[2]>>

\* timedelta(days=7)
DAYS == 7

\* the reference date had the offset been 6 days
target_date_six == strftime(today - (DAYS - 1))

\* target_date = (utcnow().date() - timedelta(days=7)).strftime("%Y-%m-%d")
target_date == strftime(today - DAYS)

\* a run on 7 March 2026: the reference date is 28 February, and the days
\* around it fall on both sides of the month boundary
TodayPool == {66}

\* run dates for the cohort selector alone: 9 January (8 days after 1 January),
\* the days around the February / March boundary, 31 December
CohortDays == {9, 365} \cup (59..68)

-----------------------------------------------------------------------------
(* Version strings: packaging.version.parse and Version comparison *)

Digits == {"0", "1", "2", "3", "4", "5", "6", "7", "8", "9"}

DigitValue == [c \in Digits |->
    CASE c = "0" -> 0 [] c = "1" -> 1 [] c = "2" -> 2 [] c = "3" -> 3
      [] c = "4" -> 4 [] c = "5" -> 5 [] c = "6" -> 6 [] c = "7" -> 7
      [] c = "8" -> 8 [] c = "9" -> 9]

\* a missing value in a DataFrame column (None / NaN): not a str
None == <<"None">>
\* NaN in first_purchase_date after a left merge without a match
NaN == <<>>

LATEST_VERSION == <<"8", ".", "8", ".", "1", "4">>
Unknown == <<"u", "n", "k", "n", "o", "w", "n">>

RECURSIVE SplitAcc(_, _, _)
SplitAcc(s, cur, acc) ==
    IF s = <<>> THEN Append(acc, cur)
    ELSE IF Head(s) = "." THEN SplitAcc(Tail(s), <<>>, Append(acc, cur))
    ELSE SplitAcc(Tail(s), Append(cur, Head(s)), acc)

\* str.split(".")
Split(s) == SplitAcc(s, <<>>, <<>>)

RECURSIVE IntAcc(_, _)
IntAcc(s, n) == IF s = <<>> THEN n ELSE IntAcc(Tail(s), 10 * n + DigitValue[Head(s)])

\* int(segment)
ParseInt(s) == IntAcc(s, 0)

IsDigits(s) == s # <<>> /\ \A i \in 1..Len(s) : s[i] \in Digits

\* the release part of packaging's VERSION_PATTERN: [0-9]+(\.[0-9]+)*
IsRelease(v) == \A i \in 1..Len(Split(v)) : IsDigits(Split(v)[i])

\* parse with a fallback that accepts any text as a version sorting below
\* every release (packaging before 22, LegacyVersion)
LegacyParse(v) ==
    IF v # None /\ IsRelease(v)
    THEN [ok |-> TRUE, error |-> "", release |-> [i \in 1..Len(Split(v)) |-> ParseInt(Split(v)[i])]]
    ELSE [ok |-> TRUE, error |-> "", release |-> <<>>]

\* version.parse(v): Version(v), raising InvalidVersion (TypeError for a non-str)
VersionParse(v) ==
    IF v = None THEN [ok |-> FALSE, error |-> "TypeError", release |-> <<>>]
    ELSE IF IsRelease(v)
    THEN [ok |-> TRUE, error |-> "", release |-> [i \in 1..Len(Split(v)) |-> ParseInt(Split(v)[i])]]
    ELSE [ok |-> FALSE, error |-> "InvalidVersion", release |-> <<>>]

RECURSIVE StripZeros(_)
\* Version._key: the release with its trailing zeros dropped
StripZeros(t) ==
    IF t = <<>> THEN t
    ELSE IF t[Len(t)] = 0 THEN StripZeros(SubSeq(t, 1, Len(t) - 1))
    ELSE t

RECURSIVE TupleLT(_, _)
\* Python's < on tuples of int
TupleLT(a, b) ==
    IF b = <<>> THEN FALSE
    ELSE IF a = <<>> THEN TRUE
    ELSE IF Head(a) # Head(b) THEN Head(a) < Head(b)
    ELSE TupleLT(Tail(a), Tail(b))

\* text order of the characters of a version string
CharRank(c) == IF c = "." THEN 0 ELSE IF c \in Digits THEN 1 + DigitValue[c] ELSE 11

\* Python's < on str
RECURSIVE StrLT(_, _)
StrLT(a, b) ==
    IF b = <<>> THEN FALSE
    ELSE IF a = <<>> THEN TRUE
    ELSE IF Head(a) # Head(b) THEN CharRank(Head(a)) < CharRank(Head(b))
    ELSE StrLT(Tail(a), Tail(b))

\* v >= w as text
LexicalGE(v, w) == ~StrLT(v, w)

\* version.parse(v) >= version.parse(w), both parseable
VersionGE(v, w) ==
    ~TupleLT(StripZeros(VersionParse(v).release), StripZeros(VersionParse(w).release))

-----------------------------------------------------------------------------
(* The Query Executor: what one curl call can yield *)

NoResponse == [exit |-> 0, status |-> 0, body |-> "none", records |-> <<>>]

\* an answer of the service: curl's exit code, the HTTP status, and the body
\* written to TEMP_JSON: "empty" | "malformed" | "object" | "list"
Response(exit, status, body, records) ==
    [exit |-> exit, status |-> status, body |-> body, records |-> records]

Ok(records) == Response(0, 200, "list", records)

\* the answers that carry no record list
Failures ==
    {Response(1, 0, "empty", <<>>),          \* curl itself fails
     Response(0, 200, "empty", <<>>),        \* success, empty body
     Response(0, 200, "malformed", <<>>),    \* success, body is not JSON
     Response(0, 500, "empty", <<>>),        \* non-success status, empty body
     Response(0, 500, "malformed", <<>>),    \* non-success status, HTML error page
     Response(0, 500, "object", <<>>)}       \* non-success status, {"error": ...}

\* run_jql: subprocess.run(check=True) raises on a non-zero exit of curl; the
\* HTTP status is never read (curl runs without --fail); json.loads(text) if
\* text else []
run_jql(resp) ==
    IF resp.exit # 0 THEN [raised |-> TRUE, error |-> "CalledProcessError", dict |-> FALSE, value |-> <<>>]
    ELSE IF resp.body = "malformed" THEN [raised |-> TRUE, error |-> "JSONDecodeError", dict |-> FALSE, value |-> <<>>]
    ELSE IF resp.body = "empty" THEN [raised |-> FALSE, error |-> "", dict |-> FALSE, value |-> <<>>]
    ELSE IF resp.body = "object" THEN [raised |-> FALSE, error |-> "", dict |-> TRUE, value |-> <<>>]
    ELSE [raised |-> FALSE, error |-> "", dict |-> FALSE, value |-> resp.records]

-----------------------------------------------------------------------------
(* pandas operations used by main *)

\* Python's "not x" on a list
Falsy(x) == Len(x) = 0

\* an emptiness test that never fires
DfNeverEmpty(df) == FALSE

\* DataFrame.empty
DfEmpty(df) == Len(df) = 0

\* first_df[first_df["first_purchase_date"] == target_date]
SelectCohort(first_df, date) ==
    SelectSeq(first_df, LAMBDA r : r.first_purchase_date = date)

\* df["customer_phone_number"].astype(str).tolist()
ToList(df) == [i \in 1..Len(df) |-> df[i].customer_phone_number]

\* groupby(key).groups: key -> row positions
Groups(df) ==
    [k \in {df[i].customer_phone_number : i \in 1..Len(df)} |->
        {i \in 1..Len(df) : df[i].customer_phone_number = k}]

\* first-row retention: drop_duplicates("customer_phone_number")
KeepFirstOfGroup(df) ==
    LET g == Groups(df)
        kept == {i \in 1..Len(df) : \A j \in g[df[i].customer_phone_number] : i <= j}
    IN  SelectSeq([i \in 1..Len(df) |-> [pos |-> i, row |-> df[i]]],
                  LAMBDA x : x.pos \in kept)

\* groupby("customer_phone_number").filter(lambda x: len(x) == 1): the rows of
\* the groups that pass, in the frame's order; rows tagged with their position
GroupbyFilter(df) ==
    LET g == Groups(df)
        kept == UNION {g[k] : k \in {k2 \in DOMAIN g : Cardinality(g[k2]) = 1}}
    IN  SelectSeq([i \in 1..Len(df) |-> [pos |-> i, row |-> df[i]]],
                  LAMBDA x : x.pos \in kept)

Rows(tagged) == [i \in 1..Len(tagged) |-> tagged[i].row]

RECURSIVE MergeLeft(_, _)
\* left.merge(right[["customer_phone_number", "first_purchase_date"]],
\*            on="customer_phone_number", how="left")
MergeLeft(left, right) ==
    IF left = <<>> THEN <<>>
    ELSE LET l == Head(left)
             m == SelectSeq(right, LAMBDA r : r.customer_phone_number = l.customer_phone_number)
             joined ==
                IF m = <<>>
                THEN <<[customer_phone_number |-> l.customer_phone_number,
                        AppVersion |-> l.AppVersion,
                        first_purchase_date |-> NaN]>>
                ELSE [i \in 1..Len(m) |->
                        [customer_phone_number |-> l.customer_phone_number,
                         AppVersion |-> l.AppVersion,
                         first_purchase_date |-> m[i].first_purchase_date]]
         IN  joined \o MergeLeft(Tail(left), right)

\* the lambda of final_df["AppVersion"].apply(...)
IsLatest(v) == IF VersionGE(v, LATEST_VERSION) THEN "Yes" ELSE "No"

\* the apply raises as soon as one AppVersion does not parse
ApplyRaises(df) == \E i \in 1..Len(df) : ~VersionParse(df[i].AppVersion).ok

ApplyError(df) ==
    LET i == CHOOSE i \in 1..Len(df) :
                /\ ~VersionParse(df[i].AppVersion).ok
                /\ \A j \in 1..(i - 1) : VersionParse(df[j].AppVersion).ok
    IN  VersionParse(df[i].AppVersion).error

\* the apply, then rename(...)[[...]]: the report's columns
Annotate(df) ==
    [i \in 1..Len(df) |->
        [customer_phone_number |-> df[i].customer_phone_number,
         app_version |-> df[i].AppVersion,
         is_latest_version |-> IsLatest(df[i].AppVersion),
         first_purchase_date |-> df[i].first_purchase_date]]

\* "YYYY-MM-DD" <= "YYYY-MM-DD"
DateLE(a, b) ==
    \/ a[1] < b[1]
    \/ a[1] = b[1] /\ a[2] < b[2]
    \/ a[1] = b[1] /\ a[2] = b[2] /\ a[3] <= b[3]

\* na_position="last"
KeyLE(a, b) == IF b = NaN THEN TRUE ELSE IF a = NaN THEN FALSE ELSE DateLE(a, b)

Perms(n) == {p \in [1..n -> 1..n] : \A i, j \in 1..n : i # j => p[i] # p[j]}

\* sort_values("first_purchase_date") with the default kind="quicksort", which
\* pandas documents as not stable: the result is ascending by the key, and the
\* order among rows of equal key is whatever the sort produces (numpy's
\* introsort leaves ties in place only while a partition has at most 16 rows)
SortValues(df) ==
    {[i \in 1..Len(df) |-> df[p[i]]] :
        p \in {q \in Perms(Len(df)) :
                \A i \in 1..(Len(df) - 1) :
                    KeyLE(df[q[i]].first_purchase_date, df[q[i + 1]].first_purchase_date)}}

-----------------------------------------------------------------------------
(* The two JQL scripts, run by the remote service over its event log *)

\* s.toLowerCase().indexOf("test") !== -1, over the station and zone names in use
TestMarked == {"TEST Kitchen", "Hubtel Test Zone - Kubekrom"}
ContainsTest(s) == s \in TestMarked

\* String(phone).toLowerCase() === "guest"
IsGuestPhone(p) == p \in {"guest", "Guest", "GUEST"}

\* Events({from_date: "2020-01-01", to_date: today})
InWindow(e) == e.time <= today

\* build_first_purchase_jql, .filter: a guest is IsGuest === true, or no
\* phone number, or the phone number "guest"
FirstPurchaseFilter(e) ==
    LET isGuest == e.IsGuest = "true" \/ e.CustomerPhoneNumber = "" \/ IsGuestPhone(e.CustomerPhoneNumber)
    IN  /\ e.name = "Purchase"
        /\ e.AppSection \in {"Food", "Shop", "Health"}
        /\ e.AppName = "Hubtel"
        /\ ~isGuest
        /\ ~ContainsTest(e.Zone)
        /\ ~ContainsTest(e.Station)

\* build_purchase_logs_jql, .filter: IsGuest === false, and the phone number
\* is one of targetCustomers
PurchaseLogsFilter(e, phone_numbers) ==
    /\ e.name = "Purchase"
    /\ e.AppSection \in {"Food", "Shop", "Health"}
    /\ e.AppName = "Hubtel"
    /\ e.IsGuest = "false"
    /\ ~ContainsTest(e.Zone)
    /\ ~ContainsTest(e.Station)
    /\ \E i \in 1..Len(phone_numbers) : phone_numbers[i] = e.CustomerPhoneNumber

RECURSIVE Distinct(_)
\* the keys of a groupBy, in order of first appearance
Distinct(s) ==
    IF s = <<>> THEN <<>>
    ELSE <<Head(s)>> \o SelectSeq(Distinct(Tail(s)), LAMBDA x : x # Head(s))

MinTime(log, phone) ==
    LET times == {log[i].time : i \in {j \in 1..Len(log) : log[j].CustomerPhoneNumber = phone}}
    IN  CHOOSE t \in times : \A u \in times : t <= u

\* build_first_purchase_jql: filter, groupBy(phone, min(time)), map to
\* {customer_phone_number, first_purchase_date: isoDate(min)}
build_first_purchase_jql ==
    LET q == SelectSeq(events, LAMBDA e : InWindow(e) /\ FirstPurchaseFilter(e))
        keys == Distinct([i \in 1..Len(q) |-> q[i].CustomerPhoneNumber])
    IN  [i \in 1..Len(keys) |->
            [customer_phone_number |-> keys[i],
             first_purchase_date |-> strftime(MinTime(q, keys[i]))]]

\* build_purchase_logs_jql(phone_numbers): filter, map to
\* {customer_phone_number, ..., AppVersion: e.AppVersion || "unknown"}
build_purchase_logs_jql(phone_numbers) ==
    LET q == SelectSeq(events, LAMBDA e : InWindow(e) /\ PurchaseLogsFilter(e, phone_numbers))
    IN  [i \in 1..Len(q) |->
            [customer_phone_number |-> q[i].CustomerPhoneNumber,
             AppVersion |-> IF q[i].AppVersion = <<>> THEN Unknown ELSE q[i].AppVersion]]

-----------------------------------------------------------------------------
(* main() *)

Return(msg) ==
    /\ pc' = "exit"
    /\ message' = msg
    /\ error' = ""

Raise(err) ==
    /\ pc' = "raised"
    /\ message' = message
    /\ error' = err

\* main, lines 138-157: the first query, the cohort, and the sending of the
\* second query
Stage1(resp) ==
    /\ pc = "start"
    /\ resp1' = resp
    /\ queries_sent' = queries_sent + 1
    /\ UNCHANGED <<today, events, resp2, logs_results, one_time, final_df, excel, file_written>>
    /\ LET r == run_jql(resp)
           cohort == SelectCohort(r.value, target_date)
       IN  IF r.raised
           THEN Raise(r.error) /\ UNCHANGED <<base_results, target_customers_df, target_customers>>
           ELSE IF r.dict
           THEN \* pd.DataFrame of a JSON object of scalars raises ValueError
                Raise("ValueError") /\ UNCHANGED <<base_results, target_customers_df, target_customers>>
           ELSE /\ base_results' = r.value
                /\ IF Falsy(r.value)
                   THEN Return("No data from Stage 1. Exiting.")
                        /\ UNCHANGED <<target_customers_df, target_customers>>
                   ELSE IF DfEmpty(r.value)
                   THEN Return("No valid data to process. Exiting.")
                        /\ UNCHANGED <<target_customers_df, target_customers>>
                   ELSE /\ target_customers_df' = cohort
                        /\ target_customers' = ToList(cohort)
                        /\ IF Falsy(ToList(cohort))
                           THEN Return("No customers match the target date. Exiting.")
                           ELSE /\ pc' = "stage3"
                                /\ message' = "=== Stage 3: Fetch all purchase logs ==="
                                /\ error' = ""

\* main, lines 157-195: the answer to the second query, the repeat-purchase
\* filter, the merge, the version flag, the sort and the report
Stage3(resp) ==
    /\ pc = "stage3"
    /\ resp2' = resp
    /\ queries_sent' = queries_sent + 1
    /\ UNCHANGED <<today, events, resp1, base_results, target_customers_df, target_customers>>
    /\ LET r == run_jql(resp)
           kept == GroupbyFilter(r.value)
           merged == MergeLeft(Rows(kept), target_customers_df)
       IN  IF r.raised
           THEN Raise(r.error) /\ UNCHANGED <<logs_results, one_time, final_df, excel, file_written>>
           ELSE IF r.dict
           THEN Raise("ValueError") /\ UNCHANGED <<logs_results, one_time, final_df, excel, file_written>>
           ELSE /\ logs_results' = r.value
                /\ IF Falsy(r.value)
                   THEN Return("No purchase logs found. Exiting.")
                        /\ UNCHANGED <<one_time, final_df, excel, file_written>>
                   ELSE /\ one_time' = kept
                        /\ IF DfEmpty(kept)
                           THEN Return("No one-time customers found. Exiting.")
                                /\ UNCHANGED <<final_df, excel, file_written>>
                           ELSE IF ApplyRaises(merged)
                           THEN Raise(ApplyError(merged))
                                /\ UNCHANGED <<final_df, excel, file_written>>
                           ELSE /\ final_df' = Annotate(merged)
                                /\ excel' \in SortValues(Annotate(merged))
                                /\ file_written' = TRUE
                                /\ pc' = "written"
                                /\ message' = "Excel file created"
                                /\ error' = ""

-----------------------------------------------------------------------------
(* Specifications *)

\* main() is about to run: nothing fetched, nothing written
AtStart ==
    /\ pc = "start"
    /\ message = "=== Stage 1: Fetch first QC purchase dates ==="
    /\ error = ""
    /\ queries_sent = 0
    /\ resp1 = NoResponse
    /\ resp2 = NoResponse
    /\ base_results = <<>>
    /\ target_customers_df = <<>>
    /\ target_customers = <<>>
    /\ logs_results = <<>>
    /\ one_time = <<>>
    /\ final_df = <<>>
    /\ excel = <<>>
    /\ file_written = FALSE

InitRun == today \in TodayPool /\ AtStart

\* first_purchase_date values the service may report: 6, 7 and 8 days ago
DatePool == {strftime(today - k) : k \in {DAYS - 1, DAYS, DAYS + 1}}

FirstPool == [customer_phone_number : Customers, first_purchase_date : DatePool]

VersionPool == {LATEST_VERSION, Unknown, None}

LogPool == [customer_phone_number : Customers, AppVersion : VersionPool]

\* The Query Executor as an opaque boundary: any answer at all
Init == InitRun /\ events = <<>>

Query1 == \E resp \in Failures \cup {Ok(recs) : recs \in SeqsUpTo(FirstPool, MaxFirst)} : Stage1(resp)

Query2 == \E resp \in Failures \cup {Ok(recs) : recs \in SeqsUpTo(LogPool, MaxLogs)} : Stage3(resp)

Next == Query1 \/ Query2

Spec == Init /\ [][Next]_vars

\* The cohort selector alone, over more run dates
InitCohort == today \in CohortDays /\ events = <<>> /\ AtStart

SpecCohort == InitCohort /\ [][Query1]_vars

\* The version flag alone: a cohort of one customer, and one purchase event
\* whose AppVersion is any "."-joined sequence of up to MaxSegs segments
SegPool == {<<"0">>, <<"2">>, <<"8">>, <<"9">>, <<"1", "3">>, <<"1", "4">>,
            <<"0", "8">>, <<>>, <<"x">>}

RECURSIVE Join(_)
\* ".".join(segs)
Join(segs) ==
    IF Len(segs) = 0 THEN <<>>
    ELSE IF Len(segs) = 1 THEN segs[1]
    ELSE segs[1] \o <<".">> \o Join(Tail(segs))

CohortOfOne ==
    Stage1(Ok(<<[customer_phone_number |-> "A", first_purchase_date |-> target_date]>>))

OneVersionedLog ==
    \E segs \in SeqsUpTo(SegPool, MaxSegs) :
        Stage3(Ok(<<[customer_phone_number |-> "A", AppVersion |-> Join(segs)]>>))

NextVersion == CohortOfOne \/ OneVersionedLog

SpecVersion == Init /\ [][NextVersion]_vars

\* The Query Executor as the remote service running the two scripts over its
\* event log
Qualifying(g, p, s, t) ==
    [name |-> "Purchase", AppSection |-> "Food", AppName |-> "Hubtel", IsGuest |-> g,
     CustomerPhoneNumber |-> p, Station |-> s, Zone |-> "Accra",
     AppVersion |-> LATEST_VERSION, time |-> t]

EventPool ==
    {Qualifying(g, p, s, t) :
        g \in {"true", "false", "undefined"}, p \in {"A", "B", "Guest"},
        s \in {"Osu", "TEST Kitchen"}, t \in {today - DAYS, today - 1}}
    \cup {[Qualifying("false", "A", "Osu", today - 1) EXCEPT !.name = "Login"],
          [Qualifying("false", "A", "Osu", today - 1) EXCEPT !.AppSection = "Ride"],
          [Qualifying("false", "A", "Osu", today - 1) EXCEPT !.AppName = "Other"],
          [Qualifying("false", "A", "Osu", today - 1) EXCEPT !.AppVersion = <<>>]}

InitJql == InitRun /\ events \in SeqsUpTo(EventPool, MaxEvents)

ServiceQuery1 == Stage1(Ok(build_first_purchase_jql))

ServiceQuery2 == Stage3(Ok(build_purchase_logs_jql(target_customers)))

NextJql == ServiceQuery1 \/ ServiceQuery2

SpecJql == InitJql /\ [][NextJql]_vars

-----------------------------------------------------------------------------
(* Properties *)

Terminal == pc \in {"exit", "raised", "written"}

\* number of records of df that carry customer c
CountOf(df, c) == Cardinality({i \in 1..Len(df) : df[i].customer_phone_number = c})

RECURSIVE DaysBefore(_)
DaysBefore(m) == IF m = 1 THEN 0 ELSE MonthDays[m - 1] + DaysBefore(m - 1)

\* the day of the year 2026 a date triple names
ToOrdinal(d) == DaysBefore(d[2]) + d[3]

RECURSIVE PaddedGE(_, _)
\* segment-wise integer comparison, the shorter sequence padded with zeros
PaddedGE(a, b) ==
    IF a = <<>> /\ b = <<>> THEN TRUE
    ELSE LET x == IF a = <<>> THEN 0 ELSE Head(a)
             y == IF b = <<>> THEN 0 ELSE Head(b)
         IN  IF x # y THEN x > y
             ELSE PaddedGE(IF a = <<>> THEN a ELSE Tail(a), IF b = <<>> THEN b ELSE Tail(b))

SegmentsOf(v) == [i \in 1..Len(Split(v)) |-> ParseInt(Split(v)[i])]

\* C1: once the second query's records are in, a record is kept in one_time
\* iff its customer has exactly one record among them; a customer with two or
\* more records has no row there; kept rows stay in the records' order.
C1_RepeatPurchaseFilter ==
    logs_results # <<>> =>
        /\ \A i \in 1..Len(logs_results) :
              (\E j \in 1..Len(one_time) :
                    one_time[j].pos = i /\ one_time[j].row = logs_results[i])
              <=> CountOf(logs_results, logs_results[i].customer_phone_number) = 1
        /\ \A j \in 1..Len(one_time) :
              /\ one_time[j].pos \in 1..Len(logs_results)
              /\ CountOf(logs_results, one_time[j].row.customer_phone_number) = 1
        /\ \A j, k \in 1..Len(one_time) : j < k => one_time[j].pos < one_time[k].pos

C1_Witness ==
    /\ Len(logs_results) = 3
    /\ Len(one_time) = 1
    /\ \E c \in Customers : CountOf(logs_results, c) = 2

\* C2: the cohort list is exactly the customer ids of the first-purchase
\* records dated run date minus 7 days, in input order; a record dated 6 or 8
\* days before the run date is never in it.
C2_CohortSelector ==
    (pc # "start" /\ base_results # <<>>) =>
        LET want == SelectSeq(base_results,
                        LAMBDA r : ToOrdinal(r.first_purchase_date) + 7 = today)
        IN  /\ target_customers = [i \in 1..Len(want) |-> want[i].customer_phone_number]
            /\ target_customers_df = want
            /\ \A i \in 1..Len(target_customers_df) :
                  /\ ToOrdinal(target_customers_df[i].first_purchase_date) + 6 # today
                  /\ ToOrdinal(target_customers_df[i].first_purchase_date) + 8 # today

C2_Witness ==
    /\ pc = "stage3"
    /\ Len(base_results) = 2
    /\ Len(target_customers) = 1
    /\ \E i \in 1..2 : ToOrdinal(base_results[i].first_purchase_date) + 6 = today

\* C3: every row of a written report names a customer with exactly one record
\* in the second query's result and exactly one first-purchase record dated
\* the reference date.
C3_OutputRowInvariant ==
    pc = "written" =>
        \A i \in 1..Len(excel) :
            /\ CountOf(logs_results, excel[i].customer_phone_number) = 1
            /\ Cardinality({j \in 1..Len(base_results) :
                    /\ base_results[j].customer_phone_number = excel[i].customer_phone_number
                    /\ ToOrdinal(base_results[j].first_purchase_date) + 7 = today}) = 1

Success(r) == r.exit = 0 /\ r.status = 200

NoFirstRecords == Success(resp1) /\ (resp1.body = "empty" \/ (resp1.body = "list" /\ resp1.records = <<>>))

NoCohortMatch ==
    /\ Success(resp1) /\ resp1.body = "list" /\ resp1.records # <<>>
    /\ \A i \in 1..Len(resp1.records) :
          ToOrdinal(resp1.records[i].first_purchase_date) + 7 # today

NoLogs == Success(resp2) /\ (resp2.body = "empty" \/ (resp2.body = "list" /\ resp2.records = <<>>))

AllRepeat ==
    /\ Success(resp2) /\ resp2.body = "list" /\ resp2.records # <<>>
    /\ \A i \in 1..Len(resp2.records) :
          CountOf(resp2.records, resp2.records[i].customer_phone_number) >= 2

\* C4: each of the four empty-result conditions ends the run with a normal
\* return, no exception and no output file; in the first two the second query
\* is never sent.
C4_EmptyResultExits ==
    /\ (NoFirstRecords \/ NoCohortMatch \/ NoLogs \/ AllRepeat) =>
          pc = "exit" /\ error = "" /\ ~file_written /\ excel = <<>>
    /\ (NoFirstRecords \/ NoCohortMatch) => queries_sent = 1 /\ resp2 = NoResponse

C4_Witness ==
    /\ AllRepeat
    /\ pc = "exit"
    /\ message = "No one-time customers found. Exiting."
    /\ queries_sent = 2

TransportFailure(r) == r # NoResponse /\ (r.exit # 0 \/ r.status # 200 \/ r.body = "malformed")

\* C5: a transport-level failure of either query (curl fails, a non-success
\* status, a malformed payload) ends the run with an exception: never a normal
\* exit, never a retry, never an output file.
C5_TransportFailureFatal ==
    (TransportFailure(resp1) \/ TransportFailure(resp2)) =>
        /\ pc = "raised"
        /\ ~file_written
        /\ queries_sent = IF resp2 = NoResponse THEN 1 ELSE 2

\* C6: for every report row whose app_version is a dotted sequence of
\* non-negative integers, is_latest_version is "Yes" iff app_version >= 8.8.14
\* segment by segment as integers, the shorter sequence padded with zeros:
\* 8.8.14 Yes, 8.8.13 No, 8.8.2 No, 9.0.0 Yes, 8.9 Yes, 8.8 No.
C6_VersionFlag ==
    \A i \in 1..Len(excel) :
        LET v == excel[i].app_version
            yes == excel[i].is_latest_version = "Yes"
        IN  /\ excel[i].is_latest_version \in {"Yes", "No"}
            /\ IsRelease(v) => (yes <=> PaddedGE(SegmentsOf(v), <<8, 8, 14>>))
            /\ v = <<"8", ".", "8", ".", "1", "4">> => yes
            /\ v = <<"8", ".", "8", ".", "1", "3">> => ~yes
            /\ v = <<"8", ".", "8", ".", "2">> => ~yes
            /\ v = <<"9", ".", "0", ".", "0">> => yes
            /\ v = <<"8", ".", "9">> => yes
            /\ v = <<"8", ".", "8">> => ~yes

C6_Witness ==
    /\ pc = "written"
    /\ Len(excel) = 1
    /\ excel[1].app_version = <<"8", ".", "8", ".", "2">>
    /\ excel[1].is_latest_version = "No"

\* C7: every cohort member has at least one record in the second query's
\* result, and no customer with two events that qualify for the first query is
\* reported as having one.
C7_CohortMemberHasLogs ==
    resp2 # NoResponse =>
        /\ \A i \in 1..Len(target_customers) :
              CountOf(resp2.records, target_customers[i]) >= 1
        /\ \A i \in 1..Len(excel) :
              Cardinality({j \in 1..Len(events) :
                    /\ FirstPurchaseFilter(events[j])
                    /\ events[j].CustomerPhoneNumber = excel[i].customer_phone_number}) = 1

Unmatched ==
    \E j \in 1..Len(one_time) :
        CountOf(target_customers_df, one_time[j].row.customer_phone_number) = 0

\* C8: a surviving record whose customer has no first-purchase record in the
\* cohort ends the run with an error; no report is written for it.
C8_JoinInconsistencySurfaced ==
    (Terminal /\ Unmatched) =>
        /\ pc = "raised"
        /\ ~file_written
        /\ \A i \in 1..Len(excel) : excel[i].first_purchase_date # NaN

Unparseable(v) == v = None \/ v = Unknown \/ ~IsRelease(v)

\* C9: a surviving record whose app_version is missing or unparseable
\* ("unknown" included) ends the run with an exception; no report is written,
\* so no row carries a defaulted is_latest_version.
C9_UnparseableVersionFails ==
    (\E j \in 1..Len(one_time) : Unparseable(one_time[j].row.AppVersion)) =>
        /\ pc = "raised"
        /\ error \in {"InvalidVersion", "TypeError"}
        /\ ~file_written
        /\ excel = <<>>

C9_Witness ==
    /\ pc = "raised"
    /\ error = "InvalidVersion"
    /\ Len(one_time) = 2
    /\ one_time[1].row.AppVersion = LATEST_VERSION
    /\ one_time[2].row.AppVersion = Unknown

\* C10: the report's rows are ascending by first_purchase_date and rows of
\* equal date keep the order they had before the sort.
C10_StableSort ==
    pc = "written" =>
        \E p \in Perms(Len(final_df)) :
            /\ excel = [i \in 1..Len(final_df) |-> final_df[p[i]]]
            /\ \A i, j \in 1..Len(final_df) :
                  i < j =>
                    /\ KeyLE(final_df[p[i]].first_purchase_date, final_df[p[j]].first_purchase_date)
                    /\ final_df[p[i]].first_purchase_date = final_df[p[j]].first_purchase_date
                          => p[i] < p[j]

====
